---- MODULE Spec2Model ----
EXTENDS Naturals, Integers, Sequences, FiniteSets, TLC

(***************************************************************************)
(* Model of main.py: find_files_by_extension (a recursive glob under a     *)
(* root), copy_files_to_directory (mkdir -p, then a per-item copy loop     *)
(* that counts successes and failures) and main (find, then copy).         *)
(*                                                                         *)
(* A file name is a sequence of one-character strings, a path a sequence   *)
(* of names.  The filesystem maps every existing path to its entry.        *)
(***************************************************************************)

\* ---------------------------------------------------------------- bounds
\* most leading dots put in front of an extension argument
MaxDots == 2
\* deepest nesting of a candidate file below the root
MaxDepth == 2
\* most entries placed under the root in a run of main
MaxFiles == 3
\* longest source list handed directly to copy_files_to_directory
MaxSources == 3

VARIABLES
    fs,              \* the filesystem: path -> entry, for the paths that exist
    fs0,             \* the filesystem when the run started (history)
    pc,              \* position of the single thread of control
    root_path,       \* find_files_by_extension: argument
    extension,       \* find_files_by_extension: argument, as passed
    search_pattern,  \* find_files_by_extension: local, line 25
    raised,          \* exception raised by find_files_by_extension
    found_files,     \* main: local, line 104
    destination_dir, \* copy_files_to_directory: argument
    source_files,    \* copy_files_to_directory: argument
    i,               \* index of the next item of the for loop, line 55
    counters_bound,  \* whether lines 53-54 have run
    copied_count,    \* line 53, 62
    error_count,     \* line 54, 65
    log,             \* one record per item the loop attempted, in order
    summary,         \* the counts line 68 printed: <<>> or <<record>>
    stdout,          \* kinds of the messages printed, in order
    copy_raised,     \* exception leaving copy_files_to_directory
    main_except      \* which except clause of main ran

vars == <<fs, fs0, pc, root_path, extension, search_pattern, raised,
          found_files, destination_dir, source_files, i, counters_bound,
          copied_count, error_count, log, summary, stdout,
          copy_raised, main_except>>

\* ----------------------------------------------------------------- names
nR == <<"R">>
na == <<"a">>
nb == <<"b">>
no == <<"o">>
nD == <<"D">>
nP == <<"P">>
nF == <<"F">>
nN == <<"N">>
xf == <<"x", ".", "f">>
ym == <<"y", ".", "m">>
uf == <<"u", ".", "f">>
zf == <<"z", ".", "f">>
df == <<"d", ".", "f">>

Range(s) == {s[k] : k \in 1..Len(s)}

Last(p) == p[Len(p)]

Parent(p) == SubSeq(p, 1, Len(p) - 1)

\* ------------------------------------------------------------ filesystem
DirEntry == [kind |-> "dir", content |-> <<>>, perm |-> TRUE]

FileEntry(c, r) == [kind |-> "file", content |-> c, perm |-> r]

Exists(f, p) == p \in DOMAIN f

IsDir(f, p) == p \in DOMAIN f /\ f[p].kind = "dir"

IsFile(f, p) == p \in DOMAIN f /\ f[p].kind = "file"

\* the current directory (the empty path) exists and is writable
WritableDir(f, p) == p = <<>> \/ (IsDir(f, p) /\ f[p].perm)

Children(f, d) == {p \in DOMAIN f : Len(p) = Len(d) + 1 /\ Parent(p) = d}

\* ------------------------------------------------- find_files_by_extension
\* str.lstrip("."): every leading "." is removed
RECURSIVE LStripDot(_)
LStripNone(s) == s
LStripOne(s) == IF s # <<>> /\ Head(s) = "." THEN Tail(s) ELSE s
LStripDot(s) ==
    IF s # <<>> /\ Head(s) = "." THEN LStripDot(Tail(s)) ELSE s

\* f"*.{extension}"
SearchPattern(ext) == <<"*", ".">> \o LStripDot(ext)

\* fnmatch of one name against a pattern: "*" matches any run of characters,
\* every other character of these alphabets matches itself
RECURSIVE Match(_, _)
Match(pat, s) ==
    IF pat = <<>> THEN s = <<>>
    ELSE IF Head(pat) = "*"
         THEN Match(Tail(pat), s) \/ (s # <<>> /\ Match(pat, Tail(s)))
         ELSE s # <<>> /\ Head(s) = Head(pat) /\ Match(Tail(pat), Tail(s))

\* Path.rglob(pattern): every entry below d, at any depth, whose name matches
RECURSIVE RGlob(_, _, _)
RGlob(f, d, pat) ==
    {c \in Children(f, d) : Match(pat, Last(c))}
    \cup UNION {RGlob(f, c, pat) : c \in {x \in Children(f, d) : IsDir(f, x)}}

\* lines 14-19: the checks on the root, in the order the code makes them
RootCheckSwapped(f, root) ==
    IF ~IsDir(f, root) THEN "NotADirectoryError"
    ELSE IF ~Exists(f, root) THEN "FileNotFoundError"
    ELSE "none"
RootCheck(f, root) ==
    IF ~Exists(f, root) THEN "FileNotFoundError"
    ELSE IF ~IsDir(f, root) THEN "NotADirectoryError"
    ELSE "none"

\* the orders in which the filesystem may enumerate a set of paths
Orders(S) ==
    {s \in [1..Cardinality(S) -> S] : \A j, k \in DOMAIN s : j # k => s[j] # s[k]}

\* ------------------------------------------------- copy_files_to_directory
\* the prefixes of p that are proper paths, shortest first
Prefixes(p) == {SubSeq(p, 1, k) : k \in 1..Len(p)}

\* os.mkdir(p): needs p absent and its parent an existing writable directory
Mkdir1(f, p) ==
    IF ~Exists(f, p) /\ WritableDir(f, Parent(p))
    THEN [ok |-> TRUE, fs |-> (p :> DirEntry) @@ f]
    ELSE [ok |-> FALSE, fs |-> f]

\* Path.mkdir(parents=True, exist_ok=True), line 50
RECURSIVE MkdirP(_, _)
MkdirPNoCreate(f, p) == [ok |-> TRUE, fs |-> f]
MkdirPIgnoreFailure(f, p) ==
    [ok |-> TRUE,
     fs |-> [q \in DOMAIN f \cup Prefixes(p) |->
                IF q \in DOMAIN f THEN f[q] ELSE DirEntry]]
MkdirP(f, p) ==
    IF Exists(f, p) THEN [ok |-> IsDir(f, p), fs |-> f]
    ELSE IF Len(p) > 1 /\ ~Exists(f, Parent(p))
         THEN LET r == MkdirP(f, Parent(p))
              IN  IF r.ok THEN Mkdir1(r.fs, p) ELSE [ok |-> FALSE, fs |-> f]
         ELSE Mkdir1(f, p)

\* shutil.copy2(src, dst): a directory dst means dst / basename(src)
Copy2Target(f, src, dst) == IF IsDir(f, dst) THEN dst \o <<Last(src)>> ELSE dst

\* shutil.copy2 raises: same file, source missing / a directory / unreadable,
\* target not writable or not creatable
Copy2Fails(f, src, dst) ==
    LET t == Copy2Target(f, src, dst)
    IN  \/ ~IsFile(f, src)
        \/ src = t
        \/ ~f[src].perm
        \/ IF Exists(f, t) THEN ~(IsFile(f, t) /\ f[t].perm)
                           ELSE ~WritableDir(f, Parent(t))

\* shutil.copy2 succeeds: the target holds the source's content and metadata
Copy2KeepExisting(f, src, dst) ==
    LET t == Copy2Target(f, src, dst)
    IN  IF Exists(f, t) THEN f ELSE (t :> FileEntry(f[src].content, f[src].perm)) @@ f
Copy2(f, src, dst) ==
    LET t == Copy2Target(f, src, dst)
    IN  [p \in DOMAIN f \cup {t} |->
            IF p = t THEN FileEntry(f[src].content, f[src].perm) ELSE f[p]]

\* line 44: "if not source_files"
NoSourcesNever(files) == FALSE
NoSources(files) == files = <<>>

\* lines 63-65: the handler of one item's failure counts it and goes on
ItemExceptAbort(st) == [st EXCEPT !.pc = "except"]
ItemExcept(st) == [st EXCEPT !.error_count = @ + 1, !.i = @ + 1]

\* ------------------------------------------------------------ initial states
R == <<nR>>

\* a file called x.f, k directories below the root
Deep(k) == R \o [j \in 1..k |-> na] \o <<xf>>

\* the entries that may be placed under the root
SrcCandidates ==
    {Deep(k) : k \in 0..MaxDepth}
    \cup {R \o <<nb, ym>>, R \o <<nb, uf>>, R \o <<df>>, R \o <<no, xf>>}

\* a source path that names nothing (the file vanished)
Vanished == R \o <<nb, zf>>

\* d.f is a directory, u.f an unreadable file, every other candidate a
\* readable file whose content is named after its own path
EntryFor(p) ==
    IF Last(p) = df THEN DirEntry ELSE FileEntry(p, Last(p) # uf)

\* outside the root: F is a regular file, N a directory without write permission
Outside == (<<nF>> :> FileEntry(<<nF>>, TRUE)) @@ (<<nN>> :> [DirEntry EXCEPT !.perm = FALSE])

\* the tree holding the entries S, every directory above them, and Outside
Tree(S) ==
    LET dirs == (UNION {Prefixes(Parent(p)) : p \in S}) \cup {R}
    IN  [p \in S \cup dirs |-> IF p \in S THEN EntryFor(p) ELSE DirEntry] @@ Outside

\* destination arguments: the root itself, a directory inside the root, one
\* whose ancestors are missing, a regular file, a read-only directory, and
\* a directory to create inside the read-only one
DestChoices ==
    {R, R \o <<no>>, <<nP, nD>>, <<nF>>, <<nN>>, <<nN, nD>>}

Dots(k) == [j \in 1..k |-> "."]

\* extension arguments: up to MaxDots dots, then f, m or the wildcard
Extensions ==
    {Dots(k) \o b : k \in 0..MaxDots, b \in {<<"f">>, <<"m">>, <<"*">>}}

SmallSubsets(S, n) == {T \in SUBSET S : Cardinality(T) <= n}

SeqsUpTo(S, n) == UNION {[1..k -> S] : k \in 0..n}

InitCommon ==
    /\ fs0 = fs
    /\ search_pattern = <<>>
    /\ raised = "none"
    /\ i = 1
    /\ counters_bound = FALSE
    /\ copied_count = 0
    /\ error_count = 0
    /\ log = <<>>
    /\ summary = <<>>
    /\ stdout = <<>>
    /\ copy_raised = "none"
    /\ main_except = "none"

\* a run of main: lines 95-100
Init ==
    /\ pc = "main"
    /\ root_path = R
    /\ fs \in {Outside, (R :> FileEntry(R, TRUE)) @@ Outside}
              \cup {Tree(S) : S \in SmallSubsets(SrcCandidates, MaxFiles)}
    /\ extension \in Extensions
    /\ destination_dir \in DestChoices
    /\ found_files = <<>>
    /\ source_files = <<>>
    /\ InitCommon

\* a direct call of copy_files_to_directory
InitCopy ==
    /\ pc = "copy"
    /\ root_path = R
    /\ fs = Tree(SrcCandidates)
    /\ extension = <<>>
    /\ destination_dir \in DestChoices
    /\ found_files = <<>>
    /\ source_files \in SeqsUpTo(SrcCandidates \cup {Vanished}, MaxSources)
    /\ InitCommon

\* ------------------------------------------------------------------ actions
Say(msgs) == stdout' = stdout \o msgs

\* main, lines 102-104 and 119-120: the call of find_files_by_extension
\* (lines 14-29) and the handler of the two errors it raises
Find ==
    /\ pc = "main"
    /\ LET e == RootCheck(fs, root_path)
       IN  IF e # "none"
           THEN /\ raised' = e
                /\ main_except' = "path"
                /\ Say(<<"error_path">>)
                /\ pc' = "done"
                /\ UNCHANGED <<search_pattern, found_files>>
           ELSE /\ search_pattern' = SearchPattern(extension)
                /\ found_files' \in
                     Orders(RGlob(fs, root_path, SearchPattern(extension)))
                /\ pc' = "found"
                /\ UNCHANGED <<raised, main_except, stdout>>
    /\ UNCHANGED <<fs, fs0, root_path, extension, destination_dir,
                   source_files, i, counters_bound, copied_count,
                   error_count, log, summary, copy_raised>>

\* main, lines 106-117: copy what was found, or say that nothing was
MainDispatch ==
    /\ pc = "found"
    /\ IF found_files # <<>>
       THEN /\ Say(<<"found_n">>)
            /\ source_files' = found_files
            /\ pc' = "copy"
       ELSE /\ Say(<<"not_found">>)
            /\ pc' = "done"
            /\ UNCHANGED source_files
    /\ UNCHANGED <<fs, fs0, root_path, extension, search_pattern, raised,
                   found_files, destination_dir, i, counters_bound,
                   copied_count, error_count, log, summary, copy_raised,
                   main_except>>

\* copy_files_to_directory, lines 44-54: the empty-list return, else the
\* creation of the destination and the binding of the two counters
CopyBegin ==
    /\ pc = "copy"
    /\ IF NoSources(source_files)
       THEN /\ Say(<<"no_files">>)
            /\ pc' = "returned"
            /\ UNCHANGED <<fs, counters_bound>>
       ELSE LET r == MkdirP(fs, destination_dir)
            IN  IF r.ok
                THEN /\ fs' = r.fs
                     /\ Say(<<"dest_dir">>)
                     /\ counters_bound' = TRUE
                     /\ pc' = "loop"
                ELSE /\ pc' = "except"
                     /\ UNCHANGED <<fs, stdout, counters_bound>>
    /\ UNCHANGED <<fs0, root_path, extension, search_pattern, raised,
                   found_files, destination_dir, source_files, i,
                   copied_count, error_count, log, summary, copy_raised,
                   main_except>>

\* lines 70-71: the outer handler prints and swallows the exception
OuterExcept ==
    /\ pc = "except"
    /\ Say(<<"unexpected_copy">>)
    /\ copy_raised' = "none"
    /\ pc' = "returned"
    /\ UNCHANGED <<fs, fs0, root_path, extension, search_pattern, raised,
                   found_files, destination_dir, source_files, i,
                   counters_bound, copied_count, error_count, log, summary,
                   main_except>>

\* lines 55-65: one iteration of the for loop
CopyItem ==
    /\ pc = "loop"
    /\ i <= Len(source_files)
    /\ LET src_path == source_files[i]
           dest_path == destination_dir \o <<Last(src_path)>>
       IN  IF ~Copy2Fails(fs, src_path, dest_path)
           THEN /\ fs' = Copy2(fs, src_path, dest_path)
                /\ copied_count' = copied_count + 1
                /\ i' = i + 1
                /\ log' = Append(log, [src |-> src_path, dst |-> dest_path,
                                       ok |-> TRUE])
                /\ Say(<<"copying">>)
                /\ UNCHANGED <<pc, error_count>>
           ELSE LET st == ItemExcept([pc |-> pc, i |-> i,
                                      error_count |-> error_count])
                IN  /\ pc' = st.pc
                    /\ i' = st.i
                    /\ error_count' = st.error_count
                    /\ log' = Append(log, [src |-> src_path,
                                           dst |-> dest_path, ok |-> FALSE])
                    /\ Say(<<"copying", "error_item">>)
                    /\ UNCHANGED <<fs, copied_count>>
    /\ UNCHANGED <<fs0, root_path, extension, search_pattern, raised,
                   found_files, destination_dir, source_files,
                   counters_bound, summary, copy_raised, main_except>>

\* lines 67-68: the loop is over, the counts are printed
Summary ==
    /\ pc = "loop"
    /\ i > Len(source_files)
    /\ summary' = <<[copied |-> copied_count, error |-> error_count]>>
    /\ Say(<<"rule", "summary">>)
    /\ pc' = "returned"
    /\ UNCHANGED <<fs, fs0, root_path, extension, search_pattern, raised,
                   found_files, destination_dir, source_files, i,
                   counters_bound, copied_count, error_count, log,
                   copy_raised, main_except>>

\* copy_files_to_directory returns None to its caller; main's line 121
\* would run only for an exception that left the call
Return ==
    /\ pc = "returned"
    /\ main_except' = IF copy_raised # "none" THEN "unexpected" ELSE main_except
    /\ pc' = "done"
    /\ UNCHANGED <<fs, fs0, root_path, extension, search_pattern, raised,
                   found_files, destination_dir, source_files, i,
                   counters_bound, copied_count, error_count, log, summary,
                   stdout, copy_raised>>

Next ==
    \/ Find
    \/ MainDispatch
    \/ CopyBegin
    \/ OuterExcept
    \/ CopyItem
    \/ Summary
    \/ Return

Spec == Init /\ [][Next]_vars

NextCopy ==
    \/ CopyBegin
    \/ OuterExcept
    \/ CopyItem
    \/ Summary
    \/ Return

SpecCopy == InitCopy /\ [][NextCopy]_vars

\* ------------------------------------------------------- stated properties
EndsWith(s, suf) ==
    Len(s) >= Len(suf) /\ SubSeq(s, Len(s) - Len(suf) + 1, Len(s)) = suf

Under(root, p) == Len(p) > Len(root) /\ SubSeq(p, 1, Len(root)) = root

\* the longest prefix of d that exists, the current directory if none does
LongestExisting(f, d) ==
    CHOOSE q \in Prefixes(d) \cup {<<>>} :
        /\ q = <<>> \/ Exists(f, q)
        /\ \A q2 \in Prefixes(d) : Exists(f, q2) => Len(q2) <= Len(q)

\* d is a directory already, or nothing but directories lies on the way to it
\* and the deepest of them accepts a new entry
Creatable(f, d) ==
    /\ \A q \in Prefixes(d) : Exists(f, q) => IsDir(f, q)
    /\ Exists(f, d) \/ WritableDir(f, LongestExisting(f, d))

CopyOver == pc \in {"returned", "done"}

LoopCompleted == CopyOver /\ summary # <<>>

SameName(j, k) == Last(source_files[j]) = Last(source_files[k])

TargetOf(k) == destination_dir \o <<Last(source_files[k])>>

\* item k is a readable file outside the destination, whose target is absent
\* or a writable file, in a destination that accepts entries
ValidItem(k) ==
    LET s == source_files[k]
    IN  /\ IsFile(fs0, s)
        /\ fs0[s].perm
        /\ Parent(s) # destination_dir
        /\ WritableDir(fs, destination_dir)
        /\ Exists(fs0, TargetOf(k)) =>
             (IsFile(fs0, TargetOf(k)) /\ fs0[TargetOf(k)].perm)

\* C1 (as claimed): find returns exactly the files under the root whose name
\* ends with "." followed by the extension taken literally, and no directory.
C1_FindReturnsExactlyFiles ==
    pc = "found" =>
        Range(found_files) =
            {p \in DOMAIN fs : /\ Under(root_path, p)
                               /\ IsFile(fs, p)
                               /\ EndsWith(Last(p), <<".">> \o extension)}

\* C2: a missing root raises FileNotFoundError, a root that is a regular file
\* raises NotADirectoryError, neither kind is raised for any other root, and
\* in both cases nothing is searched, returned or copied.
C2_RootErrors ==
    pc # "main" =>
        /\ ~Exists(fs0, root_path) => raised = "FileNotFoundError"
        /\ IsFile(fs0, root_path) => raised = "NotADirectoryError"
        /\ raised = "FileNotFoundError" => ~Exists(fs0, root_path)
        /\ raised = "NotADirectoryError" => IsFile(fs0, root_path)
        /\ raised # "none" =>
             /\ pc = "done"
             /\ search_pattern = <<>>
             /\ found_files = <<>>
             /\ fs = fs0
             /\ log = <<>>

\* C2 witness: the root is a regular file and NotADirectoryError was raised.
C2_Witness ==
    pc = "done" /\ IsFile(fs0, root_path) /\ raised = "NotADirectoryError"

\* C3: what find returned for the extension E is what the search returns for
\* "." followed by E, over the same tree.
C3_LeadingDotEquivalent ==
    pc = "found" =>
        Range(found_files) =
            RGlob(fs, root_path, SearchPattern(<<".">> \o extension))

\* C3 witness: a search for "f", given without a dot, that found something.
C3_Witness ==
    pc = "found" /\ extension = <<"f">> /\ found_files # <<>>

\* C4 (as claimed): the pattern is "*." followed by the extension with a
\* single leading "." removed.
C4_StripsOneDot ==
    pc = "found" =>
        search_pattern =
            <<"*", ".">> \o (IF extension # <<>> /\ Head(extension) = "."
                             THEN Tail(extension) ELSE extension)

\* C4 (amended): the pattern is "*." followed by the extension with every
\* leading "." removed: what follows the removed dots does not start with one.
C4_StripsAllDots ==
    pc = "found" =>
        \E k \in 0..Len(extension) :
            /\ \A j \in 1..k : extension[j] = "."
            /\ k = Len(extension) \/ extension[k + 1] # "."
            /\ search_pattern =
                 <<"*", ".">> \o SubSeq(extension, k + 1, Len(extension))

\* C4 witness: an extension given with two leading dots was searched for.
C4_Witness ==
    /\ pc = "found"
    /\ Len(extension) >= 3
    /\ extension[1] = "."
    /\ extension[2] = "."
    /\ found_files # <<>>

\* C5 (as claimed): a copy of the empty list changes nothing on the
\* filesystem and reports the counts {copied: 0, error: 0}.
C5_EmptyReportsZero ==
    (pc = "done" /\ source_files = <<>>) =>
        /\ fs = fs0
        /\ summary = <<[copied |-> 0, error |-> 0]>>

\* C5 (amended): a copy of the empty list changes nothing on the filesystem,
\* prints only that there is nothing to copy and returns; it reports no
\* counts, the counters are never bound.
C5_EmptyIsNoOp ==
    (CopyOver /\ source_files = <<>>) =>
        /\ fs = fs0
        /\ stdout = <<"no_files">>
        /\ summary = <<>>
        /\ ~counters_bound
        /\ log = <<>>
        /\ copy_raised = "none"

\* C5 witness: the empty list was copied into a destination that does not
\* exist, and the call returned.
C5_Witness ==
    /\ pc = "done"
    /\ source_files = <<>>
    /\ ~Exists(fs0, destination_dir)
    /\ ~Exists(fs, destination_dir)

\* C6: over a non-empty list whose destination can be created the loop runs
\* to its end; every source is attempted once, in list order; a failure is
\* counted as one error and the later items are still attempted; every valid
\* item is copied; copied_count + error_count is the number of sources.
C6_BestEffortLoop ==
    /\ pc = "loop" =>
         /\ Len(log) = i - 1
         /\ copied_count + error_count = i - 1
    /\ (CopyOver /\ source_files # <<>> /\ Creatable(fs0, destination_dir))
         => summary # <<>>
    /\ LoopCompleted =>
         /\ Len(log) = Len(source_files)
         /\ \A k \in 1..Len(log) : log[k].src = source_files[k]
         /\ copied_count = Cardinality({k \in 1..Len(log) : log[k].ok})
         /\ error_count = Cardinality({k \in 1..Len(log) : ~log[k].ok})
         /\ copied_count + error_count = Len(source_files)
         /\ summary = <<[copied |-> copied_count, error |-> error_count]>>
         /\ \A k \in 1..Len(source_files) :
                ValidItem(k) => log[k].ok /\ IsFile(fs, TargetOf(k))

\* C6 witness: the loop completed with a failed item followed by a copied one.
C6_Witness ==
    /\ pc = "done"
    /\ summary # <<>>
    /\ \E j, k \in 1..Len(log) : j < k /\ ~log[j].ok /\ log[k].ok

\* C7 (as claimed): of two entries sharing a basename, both are counted as
\* copied and the destination file holds the content of the later one.
C7_LaterOverwrites ==
    LoopCompleted =>
        \A j, k \in 1..Len(source_files) :
            (/\ j < k
             /\ SameName(j, k)
             /\ \A m \in (k + 1)..Len(source_files) : ~SameName(k, m))
            => /\ log[j].ok
               /\ log[k].ok
               /\ IsFile(fs, TargetOf(k))
               /\ fs[TargetOf(k)].content = fs0[source_files[k]].content

\* C7 (amended): of two entries sharing a basename that are both copied, the
\* destination file holds the content of the later one (the last that was
\* copied); two valid entries sharing a basename are both counted as copied.
C7_LaterCopiedOverwrites ==
    LoopCompleted =>
        \A j, k \in 1..Len(source_files) :
            (j < k /\ SameName(j, k)) =>
                /\ (ValidItem(j) /\ ValidItem(k)) => (log[j].ok /\ log[k].ok)
                /\ (/\ log[j].ok
                    /\ log[k].ok
                    /\ \A m \in (k + 1)..Len(source_files) :
                           SameName(k, m) => ~log[m].ok)
                   => /\ copied_count >= 2
                      /\ IsFile(fs, TargetOf(k))
                      /\ fs[TargetOf(k)].content = fs0[source_files[k]].content

\* C7 witness: two different files of one basename were both copied.
C7_Witness ==
    /\ pc = "done"
    /\ \E j, k \in 1..Len(log) :
          /\ j < k
          /\ SameName(j, k)
          /\ source_files[j] # source_files[k]
          /\ log[j].ok
          /\ log[k].ok

\* C8: with a non-empty list, the destination and every ancestor of it is a
\* directory whenever the loop is running or an item has been attempted, and
\* a destination that can be created has been created once the loop starts.
C8_DestinationBeforeCopies ==
    /\ (pc = "loop" \/ log # <<>>) =>
         \A q \in Prefixes(destination_dir) : IsDir(fs, q)
    /\ (/\ pc \in {"loop", "returned", "done"}
        /\ source_files # <<>>
        /\ Creatable(fs0, destination_dir))
       => \A q \in Prefixes(destination_dir) : IsDir(fs, q)

\* C8 witness: the destination and its parent were both missing, and the
\* first item has been copied into it.
C8_Witness ==
    /\ pc = "loop"
    /\ ~Exists(fs0, destination_dir)
    /\ ~Exists(fs0, Parent(destination_dir))
    /\ Len(log) >= 1
    /\ log[1].ok

\* C9 (as claimed): when the destination cannot be created nothing is copied
\* or counted, and main sees the failure (one of its handlers runs).
C9_MkdirFailureSurfaced ==
    (pc = "done" /\ found_files # <<>> /\ ~Creatable(fs0, destination_dir)) =>
        /\ log = <<>>
        /\ ~counters_bound
        /\ main_except # "none"

\* C9 (amended): when the destination cannot be created nothing is copied or
\* counted and the filesystem is unchanged; the failure is printed inside
\* copy_files_to_directory, which returns normally: no exception leaves it
\* and none of main's handlers runs.
C9_MkdirFailureSwallowed ==
    (CopyOver /\ source_files # <<>> /\ ~Creatable(fs0, destination_dir)) =>
        /\ log = <<>>
        /\ ~counters_bound
        /\ copied_count = 0
        /\ error_count = 0
        /\ summary = <<>>
        /\ fs = fs0
        /\ stdout[Len(stdout)] = "unexpected_copy"
        /\ copy_raised = "none"
        /\ main_except = "none"

\* C9 witness: main found files, the destination could not be created, and
\* main ran to its end.
C9_Witness ==
    /\ pc = "done"
    /\ found_files # <<>>
    /\ ~Creatable(fs0, destination_dir)
    /\ "unexpected_copy" \in Range(stdout)

\* C10 (as claimed): in a run of main no found file is changed by the copy,
\* each copy carries the content its source had when find returned, and a
\* found file that is its own target is not counted as copied.
C10_FoundFilesUntouched ==
    pc \in {"copy", "loop", "except", "returned", "done"} =>
        /\ \A p \in Range(found_files) : Exists(fs, p) /\ fs[p] = fs0[p]
        /\ \A k \in 1..Len(log) :
               /\ log[k].src = log[k].dst => ~log[k].ok
               /\ (log[k].ok /\ \A m \in (k + 1)..Len(log) :
                                    log[m].dst = log[k].dst => ~log[m].ok)
                  => fs[log[k].dst].content = fs0[log[k].src].content

====
